---- MODULE Spec2Model ----
(***************************************************************************)
(* Model of the chunked transfer engine of gha-toolkit's CacheClient       *)
(* (src/src/cache.rs): get (ranged, concurrency-bounded download) and put  *)
(* (reserve, chunked PATCH upload, commit), run against a cache service    *)
(* that stores PATCHed ranges and serves range requests faithfully but may *)
(* answer any request with an error status and any chunk with any          *)
(* Content-MD5 header.                                                     *)
(***************************************************************************)
EXTENDS Integers, Sequences, FiniteSets, TLC

\* ------------------------------------------------------------------ bounds
MaxSize == 3        \* longest artifact / stream, in bytes
MaxChunk == 2       \* largest download_chunk_size / upload_chunk_size
MaxConc == 2        \* largest download_concurrency / upload_concurrency

Bytes == {0, 1}

\* TLC integers are 32 bits wide: the all-ones u64 word (2^64 - 1) that a
\* wrapping subtraction 0 - 1 yields is represented by the largest TLC integer.
U64_MAX == 2147483647

Min(a, b) == IF a <= b THEN a ELSE b

RECURSIVE SeqsOfLen(_)
SeqsOfLen(n) ==
  IF n = 0 THEN {<< >>}
  ELSE {Append(s, b) : s \in SeqsOfLen(n - 1), b \in Bytes}

Artifacts == UNION {SeqsOfLen(n) : n \in 0..MaxSize}

NoBlob == <<-1>>    \* the service holds no committed entry

\* --------------------------------------------------------------- variables
VARIABLES
  cfg,          \* CacheClient: chunk sizes and concurrency ceilings
  blob,         \* service: the committed artifact behind archive_location
  store,        \* service: bytes PATCHed to the reserved cache id, by offset
  \* ---- put
  ppc,          \* put: "idle" | "reserving" | "uploading" | "committing" | "done"
  pres,         \* put: "none" | "Ok" | error kind | "panic"
  data,         \* put: the stream's bytes
  reserve_status, \* status the reserve POST was answered with (0: not yet)
  regime,       \* upload: "none" | "single" | "parallel" | "gated"
  uw,           \* upload: one record per chunk future
  upermits,     \* upload: free permits of the semaphore
  ulock,        \* upload: index of the worker holding the stream lock, 0 if free
  patches,      \* history: the PATCH requests sent
  commit_sent,  \* history: the commit POST was sent
  \* ---- get
  gpc,          \* get: "idle" | "first" | "parallel" | "gated" | "seq" | "done"
  gres,         \* get: "none" | "Ok" | error kind
  gout,         \* get: the returned buffer
  first,        \* history: the first response (status, Content-Range sent and parsed, body length)
  chunks,       \* get: chunks[1] is the first chunk (sequential mode appends)
  dw,           \* get: one record per remaining chunk future
  dpermits,     \* get: free permits of the semaphore
  seq_start,    \* get: offset of the outstanding sequential request
  gets,         \* history: the ranges requested
  bad_md5,      \* history: a chunk was accepted whose Content-MD5 was not MD5(body)
  \* ---- construction and lookup
  key,          \* builder argument: the cache key
  restore_keys, \* builder argument: the restore keys
  built,        \* CacheClientBuilder::new: "none" | "Ok" | error kind
  lookup        \* entry: the lookup response and what entry returned for it

vars == <<cfg, blob, store, ppc, pres, data, reserve_status, regime, uw,
          upermits, ulock, patches, commit_sent, gpc, gres, gout, first,
          chunks, dw, dpermits, seq_start, gets, bad_md5,
          key, restore_keys, built, lookup>>

apivars == <<key, restore_keys, built, lookup>>

putvars == <<ppc, pres, data, reserve_status, regime, uw, upermits, ulock,
             patches, commit_sent>>
getvars == <<gpc, gres, gout, first, chunks, dw, dpermits, seq_start, gets,
             bad_md5>>

\* ------------------------------------------------------------ MD5 and hex
HexLower == <<"0","1","2","3","4","5","6","7","8","9","a","b","c","d","e","f">>
HexUpper == <<"0","1","2","3","4","5","6","7","8","9","A","B","C","D","E","F">>

IsHexChar(c) == \E i \in 1..16 : HexLower[i] = c \/ HexUpper[i] = c
HexVal(c) == (CHOOSE i \in 1..16 : HexLower[i] = c \/ HexUpper[i] = c) - 1

\* The digest of a body, one byte wide (a position-weighted checksum).
RECURSIVE WeightedSum(_, _)
WeightedSum(body, i) ==
  IF i > Len(body) THEN 0
  ELSE (2 * i + 1) * (body[i] + 1) + WeightedSum(body, i + 1)

Md5(body) == <<(17 * Len(body) + WeightedSum(body, 1)) % 256>>

\* hex::encode
RECURSIVE HexEncode(_)
HexEncode(bs) ==
  IF bs = << >> THEN << >>
  ELSE <<HexLower[(Head(bs) \div 16) + 1], HexLower[(Head(bs) % 16) + 1]>>
       \o HexEncode(Tail(bs))

\* hex::decode(s).ok(): None on odd length or on any non-hex character.
RECURSIVE HexBytes(_)
HexBytes(s) ==
  IF s = << >> THEN << >>
  ELSE <<16 * HexVal(s[1]) + HexVal(s[2])>> \o HexBytes(SubSeq(s, 3, Len(s)))

HexDecode(s) ==
  IF Len(s) % 2 = 1 \/ \E i \in 1..Len(s) : ~IsHexChar(s[i])
  THEN [some |-> FALSE, bytes |-> << >>]
  ELSE [some |-> TRUE, bytes |-> HexBytes(s)]

\* RFC 1864 base64 of a one-byte digest, the encoding blob stores send.
B64 == <<"A","B","C","D","E","F","G","H","I","J","K","L","M","N","O","P",
         "Q","R","S","T","U","V","W","X","Y","Z","a","b","c","d","e","f",
         "g","h","i","j","k","l","m","n","o","p","q","r","s","t","u","v",
         "w","x","y","z","0","1","2","3","4","5","6","7","8","9","+","/">>

Base64Encode(bs) ==
  <<B64[(bs[1] \div 4) + 1], B64[((bs[1] % 4) * 16) + 1], "=", "=">>

WrongDigest(body) == <<(Md5(body)[1] + 1) % 256>>

\* A Content-MD5 header: absent, or a value.
NoHeader == [present |-> FALSE, value |-> << >>]
Header(v) == [present |-> TRUE, value |-> v]

Md5Headers(body) ==
  {NoHeader,
   Header(HexEncode(Md5(body))), Header(HexEncode(WrongDigest(body))),
   Header(Base64Encode(Md5(body))), Header(Base64Encode(WrongDigest(body)))}

\* The header states the body's digest, in either encoding.
HeaderMatches(h, body) ==
  h.value = HexEncode(Md5(body)) \/ h.value = Base64Encode(Md5(body))

\* ------------------------------------------------------------- the service
\* The bytes of [start, start + size) that exist.
ServeRange(art, start, size) ==
  IF start >= Len(art) THEN << >>
  ELSE SubSeq(art, start + 1, Min(start + size, Len(art)))

\* Content-Range of a response: absent, "bytes a-b/N" or "bytes a-b/*".
ContentRanges(art) ==
  {[present |-> FALSE, known |-> FALSE, total |-> 0],
   [present |-> TRUE, known |-> TRUE, total |-> Len(art)],
   [present |-> TRUE, known |-> FALSE, total |-> 0]}

GetStatuses == {200, 206, 500}

\* The responses the service may give to the range request of one chunk. Only
\* the first chunk's Content-Range is read by the client, so the later chunks'
\* responses all carry the one with the total.
Responses(art, start, size, is_first) ==
  LET body == ServeRange(art, start, size)
      known == [present |-> TRUE, known |-> TRUE, total |-> Len(art)]
  IN {[status |-> s, crange |-> c, md5 |-> m, body |-> body] :
        s \in GetStatuses,
        c \in IF is_first THEN ContentRanges(art) ELSE {known},
        m \in Md5Headers(body)}

IsSuccess(status) == status >= 200 /\ status <= 299

\* --------------------------------------------------------------- download
NoRange == [some |-> FALSE, has_len |-> FALSE, instance_length |-> 0]

\* Mutation: the parser drops the instance length.
ParseContentRange_nolen(c) ==
  IF c.present
  THEN [some |-> TRUE, has_len |-> FALSE, instance_length |-> 0]
  ELSE NoRange

\* ContentRange::parse_header(..).ok()
ParseContentRange(c) ==
  IF c.present
  THEN [some |-> TRUE, has_len |-> c.known, instance_length |-> c.total]
  ELSE NoRange

\* The Content-MD5 header as do_download_chunk reads it.
Md5Sum(h) == IF h.present THEN HexDecode(h.value)
             ELSE [some |-> FALSE, bytes |-> << >>]

do_download_chunk(resp, size, expect_partial) ==
  LET partial_content == expect_partial /\ resp.status = 206
      content_range == IF partial_content THEN ParseContentRange(resp.crange)
                       ELSE NoRange
      md5sum == Md5Sum(resp.md5)
  IN IF ~IsSuccess(resp.status)
     THEN [err |-> "CacheServiceStatus", bytes |-> << >>, content_range |-> NoRange]
     ELSE IF Len(resp.body) # size
     THEN [err |-> "CacheChunkSize", bytes |-> << >>, content_range |-> NoRange]
     ELSE IF md5sum.some /\ md5sum.bytes # Md5(resp.body)
     THEN [err |-> "CacheChunkChecksum", bytes |-> << >>, content_range |-> NoRange]
     ELSE [err |-> "", bytes |-> resp.body, content_range |-> content_range]

\* The Range header of a chunk request: bytes=start-(start+size-1).
RangeOf(start, size) == [start |-> start, end |-> start + size - 1]

\* A chunk was accepted although its Content-MD5 header does not state MD5(body).
AcceptedBadMd5(resp, r) ==
  r.err = "" /\ resp.md5.present /\ ~HeaderMatches(resp.md5, resp.body)

\* ------------------------------------------------- construction and lookup
MaxKeyLen == 512
MaxRestoreKeys == 2   \* most restore keys passed to the builder

\* Keys of 3, 512 and 513 bytes, without a comma ("aaa..") and with one ("a,a..").
KeyLengths == {3, MaxKeyLen, MaxKeyLen + 1}
PlainKey(n) == [i \in 1..n |-> "a"]
CommaKey(n) == [i \in 1..n |-> IF i = 2 THEN "," ELSE "a"]
KeyInputs == {PlainKey(n) : n \in KeyLengths} \cup {CommaKey(n) : n \in KeyLengths}

RECURSIVE KeyLists(_)
KeyLists(n) ==
  IF n = 0 THEN {<< >>}
  ELSE {Append(l, k) : l \in KeyLists(n - 1), k \in KeyInputs}

RestoreInputs == UNION {KeyLists(n) : n \in 0..MaxRestoreKeys}

HasComma(k) == \E i \in 1..Len(k) : k[i] = ","

check_key(k) ==
  IF Len(k) > MaxKeyLen THEN "InvalidKeyLength"
  ELSE IF HasComma(k) THEN "InvalidKeyComma"
  ELSE "Ok"

\* CacheClientBuilder::new: check_key(..)? over restore_keys, in order; the key
\* argument is stored as it is.
RECURSIVE CheckAll(_)
CheckAll(ks) ==
  IF ks = << >> THEN "Ok"
  ELSE IF check_key(Head(ks)) # "Ok" THEN check_key(Head(ks))
  ELSE CheckAll(Tail(ks))

CacheClientBuilder_new(k, rks) == CheckAll(rks)

\* CacheClient::builder(base_url, token, key, restore_keys)
Build ==
  /\ built = "none"
  /\ built' = CacheClientBuilder_new(key, restore_keys)
  /\ UNCHANGED <<key, restore_keys, lookup, cfg, blob, store, putvars, getvars>>

\* The archive_location field of the lookup response's JSON body.
NoLocation == [some |-> FALSE, value |-> << >>]
Locations == {NoLocation, [some |-> TRUE, value |-> << >>],
              [some |-> TRUE, value |-> <<"u">>]}

LookupStatuses == {200, 201, 204, 404}
NoLookup == [status |-> 0, archive_location |-> NoLocation, result |-> "none"]

\* entry: what it returns for a response (whose body, on 2xx, parses as JSON).
entry(status, archive_location) ==
  IF status = 204 THEN "absent"
  ELSE IF ~IsSuccess(status) THEN "CacheServiceStatus"
  ELSE IF archive_location.some THEN "entry"
  ELSE "CacheNotFound"

\* entry(version) on a built client: the lookup response arrives.
Entry ==
  /\ built = "Ok" /\ lookup = NoLookup
  /\ \E status \in LookupStatuses, loc \in Locations :
       lookup' = [status |-> status, archive_location |-> loc,
                  result |-> entry(status, loc)]
  /\ UNCHANGED <<key, restore_keys, built, cfg, blob, store, putvars, getvars>>

\* ------------------------------------------------------------------- Init
Configs ==
  [download_chunk_size : 1..MaxChunk, upload_chunk_size : 1..MaxChunk,
   download_concurrency : 1..MaxConc, upload_concurrency : 1..MaxConc]

NoFirst ==
  [status |-> 0, crange |-> [present |-> FALSE, known |-> FALSE, total |-> 0],
   content_range |-> NoRange, len |-> 0, md5_mismatch |-> FALSE]

Init ==
  /\ cfg \in Configs
  /\ blob \in Artifacts \cup {NoBlob}
  /\ store = << >>
  /\ ppc = "idle" /\ pres = "none" /\ data = << >> /\ reserve_status = 0
  /\ regime = "none" /\ uw = << >> /\ upermits = 0 /\ ulock = 0
  /\ patches = {} /\ commit_sent = FALSE
  /\ gpc = "idle" /\ gres = "none" /\ gout = << >> /\ first = NoFirst
  /\ chunks = << >> /\ dw = << >> /\ dpermits = 0 /\ seq_start = 0
  /\ gets = {} /\ bad_md5 = FALSE
  /\ key = PlainKey(3) /\ restore_keys = << >> /\ built = "Ok"
  /\ lookup = NoLookup

\* Mutation: the semaphore is created without permits.
SemaphoreNew_empty(concurrency) == 0

\* Semaphore::new(concurrency): the permits available at the start.
SemaphoreNew(concurrency) == concurrency

\* -------------------------------------------------------------------- get
RECURSIVE Concat(_)
Concat(ss) == IF ss = << >> THEN << >> ELSE Head(ss) \o Concat(Tail(ss))

\* The start offsets the scheduling loops of get produce.
RECURSIVE ChunkStarts(_, _, _)
ChunkStarts(start, stride, cache_size) ==
  IF start < cache_size
  THEN <<start>> \o ChunkStarts(start + stride, stride, cache_size)
  ELSE << >>

\* Mutation: the remaining chunks are never gated by the semaphore.
DownloadUngated_always(cache_size) == cache_size >= 0

\* cache_size <= download_chunk_size * download_concurrency: no semaphore.
DownloadUngated(cache_size) ==
  cache_size <= cfg.download_chunk_size * cfg.download_concurrency

\* The stride of the scheduling loop: line 369 (ungated), line 393 (gated).
DownloadStride(gated) ==
  IF gated THEN cfg.upload_chunk_size ELSE cfg.download_chunk_size

DownloadWorkers(cache_size) ==
  LET chunk_size == Min(cache_size, cfg.download_chunk_size)
      starts == ChunkStarts(cfg.download_chunk_size,
                            DownloadStride(~DownloadUngated(cache_size)),
                            cache_size)
  IN [i \in 1..Len(starts) |->
        [start |-> starts[i], size |-> chunk_size, st |-> "new", bytes |-> << >>,
         nth |-> 0]]

GetDone(res, out) ==
  /\ gpc' = "done" /\ gres' = res /\ gout' = out

\* Mutation: the second chunk is requested together with the first.
FirstRequests_eager ==
  {RangeOf(0, cfg.download_chunk_size),
   RangeOf(cfg.download_chunk_size, cfg.download_chunk_size)}

\* What get sends before its first await: download_first_chunk(uri, 0,
\* download_chunk_size) and nothing else.
FirstRequests == {RangeOf(0, cfg.download_chunk_size)}

\* get is called with the archive_location of the committed entry; the first
\* chunk request goes out.
GetStart ==
  /\ gpc = "idle"
  /\ blob # NoBlob
  /\ ppc = "idle" \/ (ppc = "done" /\ pres = "Ok" /\ commit_sent)
  /\ gpc' = "first"
  /\ gets' = FirstRequests
  /\ UNCHANGED <<apivars, cfg, blob, store, putvars, gres, gout, first, chunks, dw,
                 dpermits, seq_start, bad_md5>>

\* The first response arrives; get runs up to its next await.
GetFirstResponse ==
  /\ gpc = "first"
  /\ \E resp \in Responses(blob, 0, cfg.download_chunk_size, TRUE) :
       LET r == do_download_chunk(resp, cfg.download_chunk_size, TRUE)
           cache_size == r.content_range
           actual_size == Len(r.bytes)
           N == cache_size.instance_length
       IN /\ first' = [status |-> resp.status, crange |-> resp.crange,
                       content_range |-> cache_size, len |-> Len(resp.body),
                       md5_mismatch |-> (resp.md5.present
                                         /\ ~HeaderMatches(resp.md5, resp.body))]
          /\ bad_md5' = (bad_md5 \/ AcceptedBadMd5(resp, r))
          /\ IF r.err # ""
             THEN /\ GetDone(r.err, << >>)
                  /\ UNCHANGED <<chunks, dw, dpermits, seq_start, gets>>
             ELSE IF ~cache_size.some
             THEN /\ GetDone("Ok", r.bytes)
                  /\ chunks' = <<r.bytes>>
                  /\ UNCHANGED <<dw, dpermits, seq_start, gets>>
             ELSE IF cache_size.has_len
             THEN IF actual_size = N
                  THEN /\ GetDone("Ok", r.bytes)
                       /\ chunks' = <<r.bytes>>
                       /\ UNCHANGED <<dw, dpermits, seq_start, gets>>
                  ELSE IF actual_size > N
                  THEN /\ GetDone("CacheSize", << >>)
                       /\ UNCHANGED <<chunks, dw, dpermits, seq_start, gets>>
                  ELSE IF actual_size # cfg.download_chunk_size
                  THEN /\ GetDone("CacheChunkSize", << >>)
                       /\ UNCHANGED <<chunks, dw, dpermits, seq_start, gets>>
                  ELSE /\ gpc' = (IF DownloadUngated(N) THEN "parallel" ELSE "gated")
                       /\ dw' = DownloadWorkers(N)
                       /\ dpermits' = (IF DownloadUngated(N) THEN 0
                                       ELSE SemaphoreNew(cfg.download_concurrency))
                       /\ chunks' = <<r.bytes>>
                       /\ UNCHANGED <<gres, gout, seq_start, gets>>
             ELSE IF actual_size < cfg.download_chunk_size
             THEN /\ GetDone("Ok", r.bytes)
                  /\ chunks' = <<r.bytes>>
                  /\ UNCHANGED <<dw, dpermits, seq_start, gets>>
             ELSE IF actual_size # cfg.download_chunk_size
             THEN /\ GetDone("CacheChunkSize", << >>)
                  /\ UNCHANGED <<chunks, dw, dpermits, seq_start, gets>>
             ELSE /\ gpc' = "seq"
                  /\ seq_start' = cfg.download_chunk_size
                  /\ chunks' = <<r.bytes>>
                  /\ gets' = gets \cup {RangeOf(cfg.download_chunk_size,
                                                cfg.download_chunk_size)}
                  /\ UNCHANGED <<gres, gout, dw, dpermits>>
  /\ UNCHANGED <<apivars, cfg, blob, store, putvars>>

\* A chunk future is polled: in the gated regime it takes a permit first; then
\* its range request goes out.
DownloadDispatch(i) ==
  /\ gpc \in {"parallel", "gated"}
  /\ dw[i].st = "new"
  /\ gpc = "gated" => dpermits > 0
  /\ dpermits' = (IF gpc = "gated" THEN dpermits - 1 ELSE dpermits)
  /\ dw' = [dw EXCEPT ![i].st = "inflight"]
  /\ gets' = gets \cup {RangeOf(dw[i].start, dw[i].size)}
  /\ UNCHANGED <<apivars, cfg, blob, store, putvars, gpc, gres, gout, first, chunks,
                 seq_start, bad_md5>>

\* How many chunk futures have resolved; a worker's nth records its place in
\* the order of completion.
Completed(w) == Cardinality({j \in 1..Len(w) : w[j].st = "done"})

\* try_join_all is ready once every future has resolved.
AllChunksDone(w) == \A j \in 1..Len(w) : w[j].st = "done"

\* Mutation: the first chunk is pushed at the back of the joined chunks.
Assemble_push(first_chunk, w) ==
  Concat([j \in 1..Len(w) |-> w[j].bytes] \o <<first_chunk>>)

\* chunks.insert(0, data); chunks.concat()
Assemble(first_chunk, w) ==
  Concat(<<first_chunk>> \o [j \in 1..Len(w) |-> w[j].bytes])

\* A chunk's response arrives. An error resolves try_join_all at once and
\* drops the other futures; the last success assembles the result.
DownloadResponse(i) ==
  /\ gpc \in {"parallel", "gated"}
  /\ dw[i].st = "inflight"
  /\ \E resp \in Responses(blob, dw[i].start, dw[i].size, FALSE) :
       LET r == do_download_chunk(resp, dw[i].size, FALSE)
           w == [dw EXCEPT ![i].st = "done", ![i].bytes = r.bytes,
                           ![i].nth = Completed(dw) + 1]
       IN /\ bad_md5' = (bad_md5 \/ AcceptedBadMd5(resp, r))
          /\ IF r.err # ""
             THEN /\ GetDone(r.err, << >>)
                  /\ dw' = [j \in 1..Len(dw) |->
                              [dw[j] EXCEPT !.st = IF dw[j].st = "done" THEN "done"
                                                   ELSE "dropped"]]
                  /\ dpermits' = 0
             ELSE /\ dw' = w
                  /\ dpermits' = (IF gpc = "gated" THEN dpermits + 1 ELSE dpermits)
                  /\ IF AllChunksDone(w)
                     THEN GetDone("Ok", Assemble(chunks[1], w))
                     ELSE UNCHANGED <<gpc, gres, gout>>
  /\ UNCHANGED <<apivars, cfg, blob, store, putvars, first, chunks, seq_start, gets>>

\* Sequential mode: the response to the outstanding request arrives.
SequentialResponse ==
  /\ gpc = "seq"
  /\ \E resp \in Responses(blob, seq_start, cfg.download_chunk_size, FALSE) :
       LET r == do_download_chunk(resp, cfg.download_chunk_size, FALSE)
           chunk_size == Len(r.bytes)
       IN /\ bad_md5' = (bad_md5 \/ AcceptedBadMd5(resp, r))
          /\ IF r.err # ""
             THEN /\ GetDone(r.err, << >>)
                  /\ UNCHANGED <<chunks, seq_start, gets>>
             ELSE IF r.bytes = << >>
             THEN /\ GetDone("Ok", Concat(chunks))
                  /\ UNCHANGED <<chunks, seq_start, gets>>
             ELSE IF chunk_size < cfg.download_chunk_size
             THEN /\ GetDone("Ok", Concat(Append(chunks, r.bytes)))
                  /\ chunks' = Append(chunks, r.bytes)
                  /\ UNCHANGED <<seq_start, gets>>
             ELSE IF chunk_size # cfg.download_chunk_size
             THEN /\ GetDone("CacheChunkSize", << >>)
                  /\ chunks' = Append(chunks, r.bytes)
                  /\ UNCHANGED <<seq_start, gets>>
             ELSE /\ chunks' = Append(chunks, r.bytes)
                  /\ seq_start' = seq_start + cfg.download_chunk_size
                  /\ gets' = gets \cup {RangeOf(seq_start + cfg.download_chunk_size,
                                                cfg.download_chunk_size)}
                  /\ UNCHANGED <<gpc, gres, gout>>
  /\ UNCHANGED <<apivars, cfg, blob, store, putvars, first, dw, dpermits>>

\* The GET requests in flight.
InflightGets ==
  (IF gpc \in {"first", "seq"} THEN 1 ELSE 0)
  + Cardinality({j \in 1..Len(dw) : dw[j].st = "inflight"})

\* -------------------------------------------------------------------- put
\* Read::take(n).read_to_end from position pos of the stream.
ReadAt(stream, pos, n) ==
  IF pos >= Len(stream) THEN << >>
  ELSE SubSeq(stream, pos + 1, Min(pos + n, Len(stream)))

\* Mutation: only 204 means "no cache id"; 409 falls through to the error arm.
ReserveAbsent_only204(status) == status = 204

\* reserve: 204 and 409 mean "no cache id".
ReserveAbsent(status) == status = 204 \/ status = 409

ReserveStatuses == {200, 204, 409, 500}
\* A request that gets no response at all: send() fails (no connection, or the
\* timeout of the request fires).
TransportError == 0

PatchStatuses == {TransportError, 204, 500}
CommitStatuses == {204, 500}

\* Which of upload's three code paths runs.
UploadSingle(cache_size) == cache_size <= cfg.upload_chunk_size

\* Mutation: the ungated regime admits one chunk more than the ceiling.
UploadUngated_plus1(cache_size) ==
  cache_size <= cfg.upload_chunk_size * (cfg.upload_concurrency + 1)

UploadUngated(cache_size) ==
  cache_size <= cfg.upload_chunk_size * cfg.upload_concurrency

UploadRegime(cache_size) ==
  IF UploadSingle(cache_size) THEN "single"
  ELSE IF UploadUngated(cache_size) THEN "parallel"
  ELSE "gated"

\* The chunk futures upload creates. The single PATCH carries the whole stream;
\* the parallel loop reads each chunk as it goes (the stream position advances
\* by what was read); a gated worker reads only once it holds the stream lock.
UploadWorkers(stream, cache_size) ==
  LET chunk_size == Min(cache_size, cfg.upload_chunk_size)
      starts == ChunkStarts(0, cfg.upload_chunk_size, cache_size)
      r == UploadRegime(cache_size)
  IN IF r = "single"
     THEN <<[start |-> 0, size |-> cache_size, body |-> stream, st |-> "new",
             status |-> -1]>>
     ELSE [i \in 1..Len(starts) |->
             [start |-> starts[i], size |-> chunk_size,
              body |-> IF r = "parallel"
                       THEN ReadAt(stream, (i - 1) * chunk_size, chunk_size)
                       ELSE << >>,
              st |-> "new", status |-> -1]]

\* upload_chunk's Content-Range: "bytes start-(start+size-1)/*".
\* start + size - 1 is u64 arithmetic: with start + size = 0 it underflows,
\* which panics with overflow checks and wraps to u64::MAX without them.
Underflows(start, size) == start + size = 0

ContentRangeEnd(start, size) ==
  IF Underflows(start, size) THEN U64_MAX ELSE start + size - 1

PatchOf(w) ==
  [start |-> w.start, end |-> ContentRangeEnd(w.start, w.size),
   len |-> Len(w.body), body |-> w.body]

\* put: the stream's length is taken and the reserve POST goes out.
PutStart ==
  /\ ppc = "idle" /\ gpc = "idle"
  /\ blob = NoBlob
  /\ \E stream \in Artifacts : data' = stream
  /\ ppc' = "reserving"
  /\ UNCHANGED <<apivars, cfg, blob, store, pres, reserve_status, regime, uw, upermits,
                 ulock, patches, commit_sent, getvars>>

\* The reserve response arrives: no cache id ends put with success, an error
\* status ends it with the error, a cache id starts the upload.
ReserveResponse ==
  /\ ppc = "reserving"
  /\ \E status \in ReserveStatuses :
       /\ reserve_status' = status
       /\ IF ReserveAbsent(status)
          THEN /\ ppc' = "done" /\ pres' = "Ok"
               /\ UNCHANGED <<regime, uw, upermits>>
          ELSE IF ~IsSuccess(status)
          THEN /\ ppc' = "done" /\ pres' = "CacheServiceStatus"
               /\ UNCHANGED <<regime, uw, upermits>>
          ELSE /\ ppc' = "uploading"
               /\ regime' = UploadRegime(Len(data))
               /\ uw' = UploadWorkers(data, Len(data))
               /\ upermits' = (IF UploadRegime(Len(data)) = "gated"
                               THEN SemaphoreNew(cfg.upload_concurrency) ELSE 0)
               /\ UNCHANGED pres
  /\ UNCHANGED <<apivars, cfg, blob, store, data, ulock, patches, commit_sent, getvars>>

\* A gated worker takes a permit.
UploadAcquire(i) ==
  /\ ppc = "uploading" /\ regime = "gated"
  /\ uw[i].st = "new"
  /\ upermits > 0
  /\ upermits' = upermits - 1
  /\ uw' = [uw EXCEPT ![i].st = "permit"]
  /\ UNCHANGED <<apivars, cfg, blob, store, ppc, pres, data, reserve_status, regime,
                 ulock, patches, commit_sent, getvars>>

\* The panic of an underflowing Content-Range unwinds put.
UploadPanic(i) ==
  /\ ppc' = "done" /\ pres' = "panic"
  /\ uw' = [j \in 1..Len(uw) |-> [uw[j] EXCEPT !.st = "dropped"]]
  /\ upermits' = 0 /\ ulock' = 0
  /\ UNCHANGED patches

\* A chunk future reaches upload_chunk: a gated worker first locks the stream,
\* seeks and reads its chunk (the guard lives to the end of the block, so the
\* lock stays held); then the PATCH goes out.
UploadSend(i) ==
  /\ ppc = "uploading"
  /\ IF regime = "gated" THEN uw[i].st = "permit" /\ ulock = 0
     ELSE uw[i].st = "new"
  /\ LET body == IF regime = "gated"
                 THEN ReadAt(data, uw[i].start, uw[i].size)
                 ELSE uw[i].body
         w == [uw[i] EXCEPT !.body = body, !.st = "inflight"]
     IN \/ /\ Underflows(w.start, w.size)
           /\ UploadPanic(i)
        \/ /\ uw' = [uw EXCEPT ![i] = w]
           /\ ulock' = (IF regime = "gated" THEN i ELSE ulock)
           /\ patches' = patches \cup {PatchOf(w)}
           /\ UNCHANGED <<ppc, pres, upermits>>
  /\ UNCHANGED <<apivars, cfg, blob, store, data, reserve_status, regime, commit_sent,
                 getvars>>

\* The service writes a PATCH body at its start offset.
StoreWrite(st, start, body) ==
  [o \in DOMAIN st \cup {start + k : k \in 1..Len(body)} |->
     IF o > start /\ o <= start + Len(body) THEN body[o - start] ELSE st[o]]

\* Mutation: the join resolves on the first PATCH that succeeds.
UploadComplete_first(w) == \E j \in 1..Len(w) : w[j].st = "done"

\* try_join_all is ready once every PATCH has succeeded.
UploadComplete(w) == \A j \in 1..Len(w) : w[j].st = "done"

\* Mutation: upload_chunk returns Ok whatever the outcome of the PATCH.
PatchFails_never(status) == status < TransportError

\* upload_chunk fails when send() fails and when the status is no success.
PatchFails(status) == status = TransportError \/ ~IsSuccess(status)

\* The error upload_chunk returns for a failed PATCH.
PatchError(status) ==
  IF status = TransportError THEN "ReqwestMiddleware" ELSE "CacheServiceStatus"

\* A PATCH response arrives. A failure fails the upload and put, dropping the
\* other futures; the last success lets put send the commit POST.
PatchResponse(i) ==
  /\ ppc = "uploading"
  /\ uw[i].st = "inflight"
  /\ \E status \in PatchStatuses :
       LET w == [uw EXCEPT ![i].st = "done", ![i].status = status]
       IN IF ~PatchFails(status)
          THEN /\ store' = StoreWrite(store, uw[i].start, uw[i].body)
               /\ uw' = w
               /\ upermits' = (IF regime = "gated" THEN upermits + 1 ELSE upermits)
               /\ ulock' = 0
               /\ IF UploadComplete(w)
                  THEN ppc' = "committing" /\ commit_sent' = TRUE
                  ELSE UNCHANGED <<ppc, commit_sent>>
               /\ UNCHANGED pres
          ELSE /\ ppc' = "done" /\ pres' = PatchError(status)
               /\ uw' = [j \in 1..Len(uw) |->
                           IF j = i
                           THEN [uw[j] EXCEPT !.st = "failed", !.status = status]
                           ELSE [uw[j] EXCEPT !.st = IF uw[j].st = "done"
                                                    THEN "done" ELSE "dropped"]]
               /\ upermits' = 0 /\ ulock' = 0
               /\ UNCHANGED <<store, commit_sent>>
  /\ UNCHANGED <<apivars, cfg, blob, data, reserve_status, regime, patches, getvars>>

\* The service commits the entry when the declared size is covered.
Covered(st, size) == \A o \in 1..size : o \in DOMAIN st

\* The commit response arrives.
CommitResponse ==
  /\ ppc = "committing"
  /\ \E status \in CommitStatuses :
       /\ IsSuccess(status) => Covered(store, Len(data))
       /\ ppc' = "done"
       /\ IF IsSuccess(status)
          THEN /\ pres' = "Ok"
               /\ blob' = [o \in 1..Len(data) |-> store[o]]
          ELSE /\ pres' = "CacheServiceStatus"
               /\ UNCHANGED blob
  /\ UNCHANGED <<apivars, cfg, store, data, reserve_status, regime, uw, upermits, ulock,
                 patches, commit_sent, getvars>>

\* The PATCH requests in flight.
InflightPatches == {j \in 1..Len(uw) : uw[j].st = "inflight"}

\* ------------------------------------------------------------------- Spec
Next ==
  \/ GetStart
  \/ GetFirstResponse
  \/ \E i \in 1..Len(dw) : DownloadDispatch(i)
  \/ \E i \in 1..Len(dw) : DownloadResponse(i)
  \/ SequentialResponse
  \/ PutStart
  \/ ReserveResponse
  \/ \E i \in 1..Len(uw) : UploadAcquire(i)
  \/ \E i \in 1..Len(uw) : UploadSend(i)
  \/ \E i \in 1..Len(uw) : PatchResponse(i)
  \/ CommitResponse

Spec == Init /\ [][Next]_vars

\* A step of the chunk futures of a gated or ungated transfer.
ChunkStep ==
  \/ \E i \in 1..Len(uw) : UploadAcquire(i)
  \/ \E i \in 1..Len(uw) : UploadSend(i)
  \/ \E i \in 1..Len(uw) : PatchResponse(i)
  \/ \E i \in 1..Len(dw) : DownloadDispatch(i)
  \/ \E i \in 1..Len(dw) : DownloadResponse(i)

\* The executor keeps polling the chunk futures that can make progress, the
\* semaphore and the mutex wake a waiter when they are released, and every
\* request that is in flight is eventually answered: as long as some chunk
\* future can take a step, one eventually does.
Fairness == WF_vars(ChunkStep)

SpecLive == Spec /\ Fairness

\* ----------------------------------------------------------------- claims
GetOk == gpc = "done" /\ gres = "Ok"
PutOk == ppc = "done" /\ pres = "Ok"

\* The first response was a 206 whose Content-Range gave the total.
KnownTotal == first.status = 206 /\ first.crange.present /\ first.crange.known

\* C1: a get whose first response is a 206 with Content-Range total N and that
\* returns successfully returns exactly N bytes, in the ungated and in the
\* semaphore-gated regime, whatever the chunk sizes and the concurrency.
C1_GetReturnsTotal ==
  (GetOk /\ KnownTotal) => Len(gout) = first.crange.total

\* C2: once an upload of a non-empty stream has succeeded, the Content-Range
\* ranges of its PATCHes are pairwise disjoint, cover exactly [0, size) and are
\* each at most upload_chunk_size long, also when size is no multiple of
\* upload_chunk_size.
C2_PatchesPartition ==
  (commit_sent /\ Len(data) > 0) =>
    /\ \A o \in 0..(Len(data) - 1) :
         Cardinality({p \in patches : p.start <= o /\ o <= p.end}) = 1
    /\ \A p \in patches :
         /\ p.start <= p.end /\ p.end < Len(data)
         /\ p.end - p.start + 1 <= cfg.upload_chunk_size

\* C3: in a put the reserve POST has completed (with a cache id) before any
\* PATCH is sent; the commit POST is sent only after every PATCH of the upload
\* has been sent and has completed successfully; from then on no PATCH is in
\* flight.
C3_PutOrdering ==
  /\ patches # {} => (reserve_status = 200 /\ ppc # "reserving")
  /\ commit_sent =>
       /\ \A j \in 1..Len(uw) : uw[j].st = "done"
       /\ Cardinality(patches) = Len(uw)
       /\ InflightPatches = {}

C3_Witness == commit_sent /\ PutOk /\ Len(uw) >= 2

\* C4: when the reserve POST is answered 204 or 409, put returns success and
\* sends no PATCH and no commit.
C4_ReserveAbsentNoUpload ==
  reserve_status \in {204, 409} =>
    (PutOk /\ patches = {} /\ uw = << >> /\ ~commit_sent)

C4_Witness == reserve_status = 409 /\ PutOk /\ data # << >>

C6_PatchesInFlight ==
  Cardinality(InflightPatches) <= cfg.upload_concurrency

C6_Witness ==
  /\ regime = "gated" /\ cfg.upload_concurrency >= 2 /\ upermits = 0
  /\ InflightPatches # {}

\* C7: a get that returns successfully has accepted no chunk whose Content-MD5
\* header differs from the MD5 of the chunk's body.
C7_Md5Verified == GetOk => ~bad_md5

\* C8: in a known-size download (ungated regime) whose total N is no multiple
\* of download_chunk_size, the short final chunk is accepted: get does not fail
\* with CacheChunkSize.
C8_ShortFinalChunkAccepted ==
  (/\ gpc = "done" /\ KnownTotal
   /\ first.crange.total > cfg.download_chunk_size
   /\ first.crange.total % cfg.download_chunk_size # 0
   /\ DownloadUngated(first.crange.total))
  => gres # "CacheChunkSize"

\* C9: when the (non-empty) artifact is smaller than download_chunk_size and
\* the first response is a 206 with the total or a 200, get issues exactly one
\* GET and returns the whole artifact (unless the service answered with an
\* error status or a wrong checksum).
C9_SmallDownload ==
  (/\ gpc = "done" /\ blob # << >> /\ Len(blob) < cfg.download_chunk_size
   /\ first.status = 200 \/ KnownTotal
   /\ gres \notin {"CacheServiceStatus", "CacheChunkChecksum"})
  => (gres = "Ok" /\ gout = blob /\ Cardinality(gets) = 1)

\* C10: when the first response is a 200 whose body is exactly
\* download_chunk_size long, get does not return after that response: a get
\* that succeeds has issued further range requests.
C10_SequentialAfter200 ==
  (GetOk /\ first.status = 200 /\ first.len = cfg.download_chunk_size)
  => Cardinality(gets) >= 2

\* The first response was a 206 whose Content-Range gave no total ("a-b/*").
UnknownTotal == first.status = 206 /\ first.crange.present /\ ~first.crange.known

\* The service answered no request of the get with an error status or with a
\* checksum the client rejected.
ServiceBehaved == gres \notin {"CacheServiceStatus", "CacheChunkChecksum"}

C12_SequentialTerminates ==
  (gpc = "done" /\ seq_start > 0 /\ ServiceBehaved)
  => (gres = "Ok" /\ gout = blob)

\* C13: a put of an empty stream whose reserve yields a cache id succeeds:
\* computing the PATCH's Content-Range end (start + size - 1 on u64) neither
\* aborts the operation nor underflows, and at most one PATCH is sent.
C13_EmptyPut ==
  (Len(data) = 0 /\ reserve_status = 200)
  => /\ pres # "panic"
     /\ Cardinality(patches) <= 1
     /\ \A p \in patches : p.end # U64_MAX

\* C15: if the first chunk (of full length) arrives with a Content-MD5 that is
\* not the MD5 of its body, get fails with CacheChunkChecksum and issues no
\* further chunk request.
C15_FirstChunkChecksum ==
  (/\ gpc \notin {"idle", "first"} /\ IsSuccess(first.status)
   /\ first.len = cfg.download_chunk_size /\ first.md5_mismatch)
  => (gpc = "done" /\ gres = "CacheChunkChecksum" /\ Cardinality(gets) = 1)

\* C17: in the semaphore-gated upload no worker holds the stream lock while
\* its PATCH is in flight.
C17_LockReleasedBeforeSend ==
  \A i \in InflightPatches : ulock # i

\* C18: the body of every PATCH of an upload (of a non-empty stream) is
\* exactly the stream's bytes at the offsets its Content-Range declares, and
\* once the upload has succeeded every byte of the stream was sent in exactly
\* one PATCH.
C18_BodyMatchesRange ==
  Len(data) > 0 =>
    /\ \A p \in patches :
         /\ Len(p.body) = p.end - p.start + 1
         /\ \A k \in 1..Len(p.body) :
              p.start + k <= Len(data) /\ p.body[k] = data[p.start + k]
    /\ commit_sent =>
         \A o \in 0..(Len(data) - 1) :
           Cardinality({p \in patches :
                          p.start <= o /\ o < p.start + Len(p.body)}) = 1

\* The ranges the ungated regime requests for a total N: one at every multiple
\* of download_chunk_size below N.
MultipleRanges(N) ==
  {RangeOf(k * cfg.download_chunk_size, cfg.download_chunk_size) :
     k \in {j \in 0..N : j * cfg.download_chunk_size < N}}

\* C19: a known-size download that succeeds has requested exactly the ranges
\* starting at the multiples of download_chunk_size below N, in the gated
\* regime as in the ungated one, whatever download_concurrency and
\* upload_chunk_size are.
C19_SameRangesBothRegimes ==
  (GetOk /\ KnownTotal) => gets = MultipleRanges(first.crange.total)

\* C20: at no instant of a get are more GET requests in flight than
\* download_concurrency, with or without the semaphore.
C20_GetsInFlight == InflightGets <= cfg.download_concurrency

C20_Witness ==
  /\ gpc = "gated" /\ cfg.download_concurrency >= 2 /\ dpermits = 0
  /\ InflightGets = cfg.download_concurrency

\* ------------------------------------------- construction and lookup: Spec
InitApi ==
  /\ key \in KeyInputs /\ restore_keys \in RestoreInputs
  /\ built = "none" /\ lookup = NoLookup
  /\ cfg = [download_chunk_size |-> 1, upload_chunk_size |-> 1,
            download_concurrency |-> 1, upload_concurrency |-> 1]
  /\ blob = NoBlob /\ store = << >>
  /\ ppc = "idle" /\ pres = "none" /\ data = << >> /\ reserve_status = 0
  /\ regime = "none" /\ uw = << >> /\ upermits = 0 /\ ulock = 0
  /\ patches = {} /\ commit_sent = FALSE
  /\ gpc = "idle" /\ gres = "none" /\ gout = << >> /\ first = NoFirst
  /\ chunks = << >> /\ dw = << >> /\ dpermits = 0 /\ seq_start = 0
  /\ gets = {} /\ bad_md5 = FALSE

NextApi == Build \/ Entry

SpecApi == InitApi /\ [][NextApi]_vars

\* C14: construction through CacheClient::builder fails with InvalidKeyLength
\* when the key argument is longer than 512 bytes, with InvalidKeyComma when it
\* (is not too long and) contains a comma, and fails when a restore_keys entry
\* fails check_key.
C14_BuilderValidatesKeys ==
  built # "none" =>
    /\ Len(key) > MaxKeyLen => built = "InvalidKeyLength"
    /\ (Len(key) <= MaxKeyLen /\ HasComma(key)) => built = "InvalidKeyComma"
    /\ (\E i \in 1..Len(restore_keys) : check_key(restore_keys[i]) # "Ok")
         => built # "Ok"

\* C16: entry returns absent on 204; on any other 2xx it returns the entry if
\* and only if archive_location is present and non-empty, and fails with
\* CacheNotFound otherwise; on a non-2xx status it fails with
\* CacheServiceStatus.
C16_EntryResult ==
  lookup.status # 0 =>
    LET usable == lookup.archive_location.some
                  /\ lookup.archive_location.value # << >>
    IN /\ lookup.status = 204 => lookup.result = "absent"
       /\ ~IsSuccess(lookup.status) => lookup.result = "CacheServiceStatus"
       /\ (IsSuccess(lookup.status) /\ lookup.status # 204) =>
            /\ lookup.result = "entry" <=> usable
            /\ ~usable => lookup.result = "CacheNotFound"

\* C21: within a get, the first chunk's response has been received and
\* validated before any other chunk request is sent: while the first request
\* is in flight it is the only request of the get, in flight or sent, and once
\* a further request exists the first response has been accepted and its body
\* is the first stored chunk.
C21_FirstChunkAlone ==
  /\ gpc = "first" =>
       /\ gets = {RangeOf(0, cfg.download_chunk_size)}
       /\ InflightGets = 1
       /\ dw = << >>
       /\ first = NoFirst
  /\ (Cardinality(gets) > 1 \/ InflightGets > 1) =>
       /\ gpc # "first"
       /\ first.status = 206
       /\ Len(chunks) >= 1
       /\ Len(chunks[1]) = first.len

\* Two further chunk requests are in flight after the first chunk was accepted.
C21_Witness ==
  /\ gpc \in {"parallel", "gated"}
  /\ InflightGets >= 2
  /\ first.status = 206
  /\ Len(chunks) = 1

\* The chunk bodies a get holds when the join is ready, each with the start
\* offset it was requested at.
ReceivedChunks ==
  {[start |-> 0, bytes |-> chunks[1]]}
  \cup {[start |-> dw[j].start, bytes |-> dw[j].bytes] : j \in 1..Len(dw)}

\* The bodies of a set of chunks, concatenated in increasing start order.
RECURSIVE ConcatByStart(_)
ConcatByStart(S) ==
  IF S = {} THEN << >>
  ELSE LET lo == CHOOSE c \in S : \A d \in S : c.start <= d.start
       IN lo.bytes \o ConcatByStart(S \ {lo})

\* C22: whatever order the remaining chunk requests of a get complete in, the
\* returned buffer is the concatenation of the chunk bodies in increasing
\* start-offset order, with the first chunk at the front.
C22_AssembledByOffset ==
  (GetOk /\ Len(dw) > 0) =>
    /\ \A c, d \in ReceivedChunks : c.start = d.start => c = d
    /\ gout = ConcatByStart(ReceivedChunks)
    /\ SubSeq(gout, 1, Len(chunks[1])) = chunks[1]

\* A get returned after its later chunk completed before its earlier one, the
\* two bodies being different.
C22_Witness ==
  /\ GetOk /\ Len(dw) >= 2
  /\ dw[2].nth < dw[1].nth
  /\ dw[1].bytes # dw[2].bytes
  /\ gout # << >>

\* The PATCHes of the upload that were answered with a failure: no response,
\* or a status outside 200..299.
FailedPatches ==
  {j \in 1..Len(uw) : uw[j].status = 0
                       \/ (uw[j].status > 0 /\ ~(uw[j].status \in 200..299))}

\* C23: if a PATCH of an upload fails (non-success status or transport error),
\* the upload fails with that error, put returns the error, and the commit
\* POST is never sent for that cache id.
C23_PatchFailureNoCommit ==
  \A j \in FailedPatches :
    /\ ppc = "done"
    /\ pres = (IF uw[j].status = 0 THEN "ReqwestMiddleware" ELSE "CacheServiceStatus")
    /\ ~commit_sent
    /\ blob = NoBlob
    /\ FailedPatches = {j}

\* A PATCH failed after another PATCH of the same upload had succeeded.
C23_Witness ==
  /\ FailedPatches # {}
  /\ \E k \in 1..Len(uw) : uw[k].st = "done"
  /\ ppc = "done" /\ pres # "Ok"

\* The workers of the gated upload that hold a permit, and the gated download
\* workers that hold one.
UploadHolders == {j \in 1..Len(uw) : uw[j].st \in {"permit", "inflight"}}
DownloadHolders == {j \in 1..Len(dw) : dw[j].st = "inflight"}

\* Permits are neither lost nor made while a gated operation runs, and the
\* stream lock is held by a worker that holds a permit or by nobody.
GatedAccounting ==
  /\ (ppc = "uploading" /\ regime = "gated") =>
       /\ upermits + Cardinality(UploadHolders) = cfg.upload_concurrency
       /\ ulock # 0 => ulock \in UploadHolders
  /\ gpc = "gated" =>
       dpermits + Cardinality(DownloadHolders) = cfg.download_concurrency

\* A gated operation that has ended holds no permit and not the stream lock;
\* one that ended without a failure has dispatched and completed every chunk.
GatedEndsClean ==
  /\ (regime = "gated" /\ ppc \in {"committing", "done"}) =>
       /\ UploadHolders = {} /\ ulock = 0
       /\ FailedPatches = {} =>
            /\ \A j \in 1..Len(uw) : uw[j].st = "done"
            /\ upermits = cfg.upload_concurrency
  /\ (gpc = "done" /\ ~DownloadUngated(first.content_range.instance_length)
       /\ Len(dw) > 0) =>
       /\ DownloadHolders = {}
       /\ gres = "Ok" =>
            /\ \A j \in 1..Len(dw) : dw[j].st = "done"
            /\ dpermits = cfg.download_concurrency

\* A gated upload or a gated get is under way (put and get are separate calls:
\* at most one of the two is).
GatedRunning ==
  (ppc = "uploading" /\ regime = "gated") \/ gpc = "gated"

\* C24: in the semaphore-gated regimes of upload and get, when every request
\* is eventually answered, the operation eventually ends under every
\* interleaving (permit and stream-lock acquisition never block each other for
\* ever, every chunk is dispatched unless a failure ended the operation), and
\* when it has ended, with success or with failure, no permit and not the
\* stream lock is held.
C24_GatedTerminates ==
  /\ [](GatedAccounting /\ GatedEndsClean)
  /\ GatedRunning ~> ~GatedRunning

\* A gated upload was ended by a failed PATCH while a worker that had not got
\* its turn was dropped; nothing is held.
C24_Witness ==
  /\ regime = "gated" /\ ppc = "done" /\ cfg.upload_concurrency >= 2
  /\ FailedPatches # {}
  /\ \E j \in 1..Len(uw) : uw[j].st = "dropped"
  /\ UploadHolders = {} /\ ulock = 0

====
